---------------------------- MODULE Spec2Model ----------------------------
(***************************************************************************)
(* Reactive synchronisation engine of the beamforming simulator and the    *)
(* image mixer.                                                            *)
(*                                                                         *)
(*   SpecSim, SpecSimFair, SpecLoad, SpecUnload, SpecBoot, SpecBootFair,   *)
(*   SpecRace, SpecStore, SpecSwitch, SpecSwitchFair                       *)
(*             SimulatorProvider (context/SimulatorContext.jsx, second     *)
(*             definition, lines 285-665) with the useDebounce hook, with  *)
(*             a user who edits, who loads and resets scenarios, or who    *)
(*             closes the page; SpecBoot is the bootstrap with its mount   *)
(*             effect and its safety timeout, SpecRace two loadScenario    *)
(*             calls whose responses may arrive in either order, SpecStore *)
(*             a server that writes overlapping saves in any order and     *)
(*             SpecSwitch an edit next to a scenario load.                 *)
(*   SpecMix, SpecUpload, SpecUploadFair, SpecViewer                       *)
(*             ImageMixerProvider (components/mixer/ImageMixerContext.jsx, *)
(*             first definition) with the ControlPanel and the ROI drag of *)
(*             the ComponentViewer, with bulk uploads, or with the output  *)
(*             viewer select.                                              *)
(*   SpecPoll  PartAPage (pages/MixerPage.jsx): handleMix and pollProgress.*)
(*                                                                         *)
(* Every action is one turn of the event loop: the handler (a user event,  *)
(* a timer callback, the continuation of an awaited request), the render   *)
(* React performs for the batched state updates, and the effects whose     *)
(* dependencies changed.  In the simulator time is kept as the remaining   *)
(* delay of each pending timer, in milliseconds; a timer fires when its    *)
(* delay is 0 and time advances only while no pending timer is due.        *)
(***************************************************************************)
EXTENDS Integers, Sequences, FiniteSets, TLC

VARIABLES
  \* ---- SimulatorProvider: React state and refs
  bootPc,            \* position of initialize(): mount, media, scenarios, getScenario,
                     \* calc, done
  scenarios,         \* useState scenarios: the catalog, a sequence of ids
  currentScenario,   \* useState currentScenario
  config,            \* useState config
  debouncedConfig,   \* useDebounce(config, 400)
  results,           \* useState results
  loading,           \* useState loading
  initializing,      \* useState initializing
  error,             \* useState error
  lastSaveTime,      \* useState lastSaveTime
  lastSavedRef,      \* useRef: serialization of the last saved configuration
  isDirtyRef,        \* useRef: dirty flag
  \* ---- localStorage
  lsConfig, lsScenario, lsLastSave,
  \* ---- timers
  debounceTimer,     \* the setTimeout of useDebounce
  autosaveTimer,     \* the setTimeout of the autosave effect
  \* ---- requests in flight and the remote store
  calcReqs, saveReqs, loadReqs, store,
  \* ---- bookkeeping of the environment and history
  nextId,            \* next object identity
  calcIssued,        \* number of calculate() calls that reached apiService.calculate
  saveIssued,        \* number of apiService.saveScenario calls
  lastCalcId,        \* identity of the config the latest calculate() call carried
  lastSaveId,        \* identity of the config the latest saveScenario call carried
  nEdits, nLoads,    \* user actions so far
  clock,             \* value of the next new Date()
  sinceChange,       \* ms since config last changed (capped)
  sinceLoad,         \* ms since the last load/reset fetch completed (capped)
  unloadLog,         \* what the last run of the beforeunload handler did
  nUnloads,          \* runs of the beforeunload handler
  hasInitialized,    \* useRef: initialize() has started
  nMounts,           \* runs of the mount effect
  appliedLoad,       \* loadScenario: the call whose response was applied last
  caught,            \* loadMedia / loadScenarios: the catch clause that ran in the
                     \* last step (it leaves no other trace than the error slot)
  \* ---- ImageMixerProvider: React state
  imageWeights,      \* useState imageWeights (0: no weight above zero)
  regionMode,        \* useState regionMode
  outputImages,      \* useState outputImages: the request whose image is shown
  isMixing,          \* useState isMixing
  mixingProgress,    \* useState mixingProgress
  mixCancelToken,    \* useState mixCancelToken: the request it cancels, 0 for null
  currentOutputViewer, \* useState currentOutputViewer: index of the output slot
  outputSlots,       \* useState outputImages, slot by slot: the request whose
                     \* image each slot holds
  \* ---- ControlPanel and ComponentViewer
  prevValuesRef,     \* ControlPanel: the values of the last scheduled mix
  controlTimeout,    \* ControlPanel: the 300 ms timer is pending
  isDragging,        \* ComponentViewer: a ROI drag is going on
  dragClosure,       \* what handleMouseMove captured at mousedown
  updateTimeoutRef,  \* ComponentViewer: the 30 ms timer is pending
  \* ---- timers and requests of mixImages
  progressIntervals, \* requests whose progress ticker is alive
  settleTimeouts,    \* pending setTimeout(() => setMixingProgress(0), 500)
  mixReqs,           \* /mix/ requests in flight and not cancelled
  mixIssued,         \* number of /mix/ requests issued
  sentViewer,        \* the output_viewer each /mix/ request carried
  uploadCall,        \* uploadMultipleImages: files to upload and files done
  nMixEdits, nMoves, nUploads,  \* user actions so far
  \* ---- PartAPage (pages/MixerPage.jsx): React state
  outputs,           \* useState outputs: per slot the job whose result it shows
  activeOutput,      \* useState activeOutput
  mixing,            \* useState mixing
  progress,          \* useState progress, -1 for null
  currentOperation,  \* useState currentOperation, 0 for null
  \* ---- calls, timers and requests of handleMix and pollProgress
  handleMixCalls,    \* handleMix invocations waiting on a request
  intervals,         \* jobs whose poll interval is alive
  pollClosure,       \* per job, the outputs and activeOutput its poller holds
  polls,             \* progress requests in flight, with the server's answer
  jobs,              \* the server's record of each job
  opsStarted,        \* number of jobs started
  alerted,           \* the alert() the last step showed
  mounted,           \* PartAPage is on screen
  nClicks, nPolls, nSwitches   \* inputs so far

simVars == <<bootPc, scenarios, currentScenario, config, debouncedConfig, results,
             loading, initializing, error, lastSaveTime, lastSavedRef, isDirtyRef,
             lsConfig, lsScenario, lsLastSave, debounceTimer, autosaveTimer,
             calcReqs, saveReqs, loadReqs, store, nextId, calcIssued, saveIssued,
             lastCalcId, lastSaveId,
             nEdits, nLoads, clock, sinceChange, sinceLoad, unloadLog, nUnloads,
             hasInitialized, nMounts, caught, appliedLoad>>

mixVars == <<imageWeights, regionMode, outputImages, isMixing, mixingProgress,
             currentOutputViewer, outputSlots, sentViewer,
             mixCancelToken, prevValuesRef, controlTimeout, isDragging, dragClosure,
             updateTimeoutRef, progressIntervals, settleTimeouts, mixReqs, mixIssued,
             uploadCall, nMixEdits, nMoves, nUploads>>

pollVars == <<outputs, activeOutput, mixing, progress, currentOperation, handleMixCalls,
              intervals, pollClosure, polls, jobs, opsStarted, alerted, mounted, nClicks,
              nPolls, nSwitches>>

vars == <<simVars, mixVars, pollVars>>

-----------------------------------------------------------------------------
\* Bounds of the environment
MaxEdits == 2
MaxLoads == 1
MaxRaceLoads == 2
MaxStoreEdits == 2
MaxViewerEdits == 3
MaxViewerMix == 3
MaxSwitchEdits == 1
MaxSwitchLoads == 1
MaxUnloads == 1
MaxMounts == 2
MaxBootEdits == 1
MaxMix == 3
MaxMixEdits == 2
MaxMoves == 2
MaxUploads == 1
MaxUploadMix == 2
MaxJobs == 2
MaxPolls == 3
MaxSwitches == 1

\* Program constants (milliseconds)
DebounceDelay == 400
AutosaveDelay == 500

\* Time advances in steps of 100 ms
Steps == {100}
\* The delay after which the Suppression Flag is cleared (specification, 4.5)
SuppressionWindow == 1000
SinceCap == DebounceDelay + AutosaveDelay

-----------------------------------------------------------------------------
\* Values
ScenarioIds == {"A", "B"}
NoScenario  == "none"
\* Contents of a configuration; content 0 has an empty `arrays` list
Vals        == {0, 1, 2}
NullCfg     == [id |-> 0, val |-> 0, scn |-> NoScenario]
NullRes     == [gen |-> -1, val |-> -1]
NullStr     == -1
NoError     == "none"
\* What getScenarios may answer; a cached id "C" is of a scenario no longer in it
Catalogs    == {<< >>, <<"A", "B">>}
\* Factory contents of the scenarios (what resetScenario restores)
Default(s)  == IF s = "A" THEN 1 ELSE 2

NoUnload    == [fetch |-> "none", beacon |-> "none"]
TimerOff    == [on |-> FALSE, rem |-> 0, value |-> NullCfg]
SaveTimerOff == [on |-> FALSE, rem |-> 0, scn |-> NoScenario, cfg |-> NullCfg]

\* JSON.stringify(config): the content, without the object's identity
Serialize(c) == c.val
\* debouncedConfig.arrays && debouncedConfig.arrays.length > 0
HasArrays(c) == c.val # 0
\* A bootstrap that takes the cached scenario for listed whatever the catalog
InCatalogAlways(s, cat) == TRUE
InCatalog(s, cat) == \E i \in 1..Len(cat) : cat[i] = s
Min(a, b) == IF a < b THEN a ELSE b

\* The React state a handler leaves behind, before the render
Cur == [config |-> config, deb |-> debouncedConfig, scn |-> currentScenario,
        results |-> results, loading |-> loading, init |-> initializing,
        error |-> error, saved |-> lastSavedRef, dirty |-> isDirtyRef,
        dtimer |-> debounceTimer, atimer |-> autosaveTimer, calcReqs |-> calcReqs,
        lsConfig |-> lsConfig, caught |-> NoError]

-----------------------------------------------------------------------------
\* Effects of SimulatorProvider, in the order of their declaration.  Each
\* takes the state h the handler left and tells what the effect does when
\* the render commits h.

\* A useDebounce whose effect has no cleanup: a pending timer is left to fire
\* and the new value gets a timer only when none is pending
useDebounceNoCleanup(h) ==
  IF h.config # config /\ ~h.dtimer.on
    THEN [on |-> TRUE, rem |-> DebounceDelay, value |-> h.config]
    ELSE h.dtimer

\* useDebounce: effect on [value, delay]
useDebounce(h) ==
  IF h.config # config
    THEN [on |-> TRUE, rem |-> DebounceDelay, value |-> h.config]
    ELSE h.dtimer

\* An effect that leaves the CONFIG slot alone
LocalConfigEffectStale(h) == h.lsConfig
\* "Save config to localStorage whenever it changes"
LocalConfigEffect(h) ==
  IF h.config # config /\ h.config # NullCfg THEN Serialize(h.config) ELSE h.lsConfig

\* "Track dirty state by comparing current config to last saved copy"
DirtyEffect(h) ==
  IF h.config # config /\ h.config # NullCfg
    THEN h.saved # Serialize(h.config)
    ELSE h.dirty

\* "Save current scenario to localStorage"
LocalScenarioEffect(h) ==
  IF h.scn # currentScenario /\ h.scn # NoScenario THEN h.scn ELSE lsScenario

\* "Mark initialization as complete when we have results for the first time"
InitCompleteEffect(h) ==
  IF h.init /\ h.results # NullRes /\ h.config # NullCfg THEN FALSE ELSE h.init

\* A calculate effect that waits while a request is loading
CalcEffectRunsWhenIdle(h) ==
  /\ h.deb # debouncedConfig \/ InitCompleteEffect(h) # initializing
  /\ h.deb # NullCfg
  /\ HasArrays(h.deb)
  /\ ~h.loading

\* "Calculate when config changes (debounced)": effect on [debouncedConfig,
\* calculate], where calculate is rebuilt on [debouncedConfig, initializing]
CalcEffectRuns(h) ==
  /\ h.deb # debouncedConfig \/ InitCompleteEffect(h) # initializing
  /\ h.deb # NullCfg
  /\ HasArrays(h.deb)

\* calculate(): the request it issues
calculate(h) ==
  [gen |-> calcIssued + 1, cfg |-> h.deb, init |-> InitCompleteEffect(h), src |-> "calculate"]

\* An autosave effect without its cleanup: a pending save is left to fire
AutosaveEffectNoCleanup(h) ==
  IF h.deb # debouncedConfig \/ h.scn # currentScenario \/ h.config # config
    THEN IF h.atimer.on
           THEN h.atimer
           ELSE IF h.deb # NullCfg /\ h.scn # NoScenario
                  THEN [on |-> TRUE, rem |-> AutosaveDelay, scn |-> h.scn, cfg |-> h.config]
                  ELSE SaveTimerOff
    ELSE h.atimer

\* "Auto-save to backend when config changes (debounced)": effect on
\* [debouncedConfig, currentScenario, saveScenario], where saveScenario is
\* rebuilt on [config]; its cleanup clears the pending timer
AutosaveEffect(h) ==
  IF h.deb # debouncedConfig \/ h.scn # currentScenario \/ h.config # config
    THEN IF h.deb # NullCfg /\ h.scn # NoScenario
           THEN [on |-> TRUE, rem |-> AutosaveDelay, scn |-> h.scn, cfg |-> h.config]
           ELSE SaveTimerOff
    ELSE h.atimer

\* The render that follows a handler, with its effects
Render(h) ==
  /\ config' = h.config
  /\ debouncedConfig' = h.deb
  /\ currentScenario' = h.scn
  /\ results' = h.results
  /\ error' = h.error
  /\ caught' = h.caught
  /\ lastSavedRef' = h.saved
  /\ initializing' = InitCompleteEffect(h)
  /\ debounceTimer' = useDebounce(h)
  /\ lsConfig' = LocalConfigEffect(h)
  /\ isDirtyRef' = DirtyEffect(h)
  /\ lsScenario' = LocalScenarioEffect(h)
  /\ autosaveTimer' = AutosaveEffect(h)
  /\ IF CalcEffectRuns(h)
       THEN /\ calcReqs' = h.calcReqs \cup {calculate(h)}
            /\ calcIssued' = calcIssued + 1
            /\ lastCalcId' = h.deb.id
            /\ loading' = TRUE
       ELSE /\ calcReqs' = h.calcReqs
            /\ calcIssued' = calcIssued
            /\ lastCalcId' = lastCalcId
            /\ loading' = h.loading
  /\ sinceChange' = IF h.config # config THEN 0 ELSE sinceChange
  /\ UNCHANGED <<mixVars, pollVars>>

-----------------------------------------------------------------------------
\* Construction: the first render, its effects about to run.  useDebounce's
\* timer and the safety timeout are set in the same flush as the mount effect.
InitSim ==
  /\ bootPc = "mount"
  /\ scenarios = << >>
  /\ currentScenario = NoScenario
  /\ config = NullCfg
  /\ debouncedConfig = NullCfg
  /\ results = NullRes
  /\ loading = FALSE
  /\ initializing = TRUE
  /\ error = NoError
  /\ lastSavedRef = NullStr
  /\ isDirtyRef = FALSE
  /\ \E cached \in {<<NoScenario, NullStr, 0>>, <<"B", 1, 1>>, <<"C", 1, 0>>,
                      <<"B", NullStr, 0>>} :
       /\ lsScenario = cached[1]
       /\ lsConfig = cached[2]
       /\ lsLastSave = cached[3]
       /\ lastSaveTime = cached[3]
  /\ debounceTimer = [on |-> TRUE, rem |-> DebounceDelay, value |-> NullCfg]
  /\ autosaveTimer = SaveTimerOff
  /\ calcReqs = {}
  /\ saveReqs = {}
  /\ loadReqs = {}
  /\ store = [s \in ScenarioIds |-> Default(s)]
  /\ nextId = 1
  /\ calcIssued = 0
  /\ saveIssued = 0
  /\ lastCalcId = 0
  /\ lastSaveId = 0
  /\ nEdits = 0
  /\ nLoads = 0
  /\ clock = 2
  /\ sinceChange = SinceCap
  /\ sinceLoad = SuppressionWindow
  /\ unloadLog = NoUnload
  /\ nUnloads = 0
  /\ hasInitialized = FALSE
  /\ nMounts = 0
  /\ caught = NoError
  /\ appliedLoad = 0

Env == <<store, nextId, saveIssued, lastSaveId, nEdits, nLoads, clock, sinceLoad,
         unloadLog, nUnloads, hasInitialized, nMounts, appliedLoad>>
Local == <<lastSaveTime, lsLastSave>>

\* A fresh object holding content v for scenario s
NewCfg(v, s) == [id |-> nextId, val |-> v, scn |-> s]
\* The first calculation of initialize(): apiService.calculate(data)
BootCalcReq(data) == [gen |-> 0, cfg |-> data, init |-> TRUE, src |-> "boot"]

\* What the provider holds and what its calls have done
ProviderState == <<bootPc, scenarios, currentScenario, config, debouncedConfig, results,
                   loading, initializing, error, lastSaveTime, lastSavedRef, isDirtyRef,
                   lsConfig, lsScenario, lsLastSave, debounceTimer, autosaveTimer,
                   calcReqs, saveReqs, loadReqs, store, nextId, calcIssued, saveIssued,
                   lastCalcId, lastSaveId, nEdits, nLoads, clock, sinceChange, sinceLoad,
                   unloadLog, nUnloads, appliedLoad>>

-----------------------------------------------------------------------------
\* The mount effect without the test of hasInitialized
mountEffectUnguarded ==
  /\ nMounts' = nMounts + 1
  /\ hasInitialized' = TRUE
  /\ bootPc' = "media"
  /\ Render([Cur EXCEPT !.init = TRUE])
  /\ UNCHANGED <<scenarios, saveReqs, loadReqs, store, nextId, saveIssued, lastSaveId,
                 nEdits, nLoads, clock, sinceLoad, unloadLog, nUnloads, Local, appliedLoad>>

\* The mount effect: initialize() runs up to its first await unless
\* hasInitialized.current is set
mountEffect ==
  /\ nMounts' = nMounts + 1
  /\ IF hasInitialized
       THEN /\ caught' = NoError
            /\ UNCHANGED <<ProviderState, hasInitialized, mixVars, pollVars>>
       ELSE /\ hasInitialized' = TRUE
            /\ bootPc' = "media"
            /\ Render([Cur EXCEPT !.init = TRUE])
            /\ UNCHANGED <<scenarios, saveReqs, loadReqs, store, nextId, saveIssued,
                           lastSaveId, nEdits, nLoads, clock, sinceLoad, unloadLog,
                           nUnloads, Local, appliedLoad>>

\* A safety timeout whose callback leaves initializing alone
safetyTimeoutIdle ==
  /\ bootPc # "mount"
  /\ initializing
  /\ UNCHANGED vars

\* The safety timeout of the effect on [initializing]: pending exactly while
\* initializing is true, it sets initializing to false
safetyTimeout ==
  /\ bootPc # "mount"
  /\ initializing
  /\ Render([Cur EXCEPT !.init = FALSE])
  /\ UNCHANGED <<bootPc, scenarios, saveReqs, loadReqs, Env, Local>>

\* initialize(): await loadMedia()
loadMedia(ok) ==
  /\ bootPc = "media"
  /\ bootPc' = "scenarios"
  /\ Render(IF ok THEN Cur ELSE [Cur EXCEPT !.error = "getMedia", !.caught = "getMedia"])
  /\ UNCHANGED <<scenarios, saveReqs, loadReqs, Env, Local>>

\* initialize(): await loadScenarios(), then the choice between the local
\* cache and the first catalog entry
loadScenarios(ok, cat) ==
  /\ bootPc = "scenarios"
  /\ LET data == IF ok THEN cat ELSE << >>
         e1 == IF ok THEN error ELSE "getScenarios"
         c1 == IF ok THEN NoError ELSE "getScenarios"
         shouldUseLocalStorage ==
           lsScenario # NoScenario /\ lsConfig # NullStr /\ InCatalog(lsScenario, data)
         scenarioIdToLoad ==
           IF shouldUseLocalStorage THEN lsScenario
           ELSE IF Len(data) > 0 THEN data[1] ELSE NoScenario
         parsed == NewCfg(lsConfig, lsScenario)
     IN /\ scenarios' = IF ok THEN cat ELSE scenarios
        /\ IF scenarioIdToLoad # NoScenario /\ Len(data) > 0
             THEN IF shouldUseLocalStorage
                    THEN /\ bootPc' = "calc"
                         /\ nextId' = nextId + 1
                         /\ Render([Cur EXCEPT !.scn = scenarioIdToLoad, !.config = parsed,
                                               !.error = NoError, !.loading = TRUE,
                                               !.calcReqs = calcReqs \cup {BootCalcReq(parsed)}])
                    ELSE /\ bootPc' = "getScenario"
                         /\ nextId' = nextId
                         /\ Render([Cur EXCEPT !.error = e1, !.caught = c1])
             ELSE /\ bootPc' = "done"
                  /\ nextId' = nextId
                  /\ Render([Cur EXCEPT !.error = e1, !.caught = c1, !.init = FALSE])
  /\ UNCHANGED <<saveReqs, loadReqs, store, saveIssued, lastSaveId, nEdits, nLoads, clock, sinceLoad, Local, unloadLog, nUnloads, hasInitialized, nMounts, appliedLoad>>

\* An initialize() that does not take the fetched configuration as saved
initGetScenarioNoBaseline(ok) ==
  /\ bootPc = "getScenario"
  /\ LET s == scenarios[1]
         data == NewCfg(store[s], s)
     IN IF ok
          THEN /\ bootPc' = "calc"
               /\ nextId' = nextId + 1
               /\ lastSaveTime' = IF lsLastSave # 0 THEN lsLastSave ELSE lastSaveTime
               /\ Render([Cur EXCEPT !.scn = s, !.config = data, !.error = NoError,
                                     !.loading = TRUE,
                                     !.calcReqs = calcReqs \cup {BootCalcReq(data)}])
          ELSE /\ bootPc' = "done"
               /\ UNCHANGED <<nextId, lastSaveTime>>
               /\ Render([Cur EXCEPT !.error = "getScenario", !.init = FALSE])
  /\ UNCHANGED <<scenarios, saveReqs, loadReqs, store, saveIssued, lastSaveId, nEdits, nLoads, clock,
                 sinceLoad, lsLastSave, unloadLog, nUnloads, hasInitialized, nMounts, appliedLoad>>

\* initialize(): await apiService.getScenario(scenarioIdToLoad)
initGetScenario(ok) ==
  /\ bootPc = "getScenario"
  /\ LET s == scenarios[1]
         data == NewCfg(store[s], s)
     IN IF ok
          THEN /\ bootPc' = "calc"
               /\ nextId' = nextId + 1
               /\ lastSaveTime' = IF lsLastSave # 0 THEN lsLastSave ELSE lastSaveTime
               /\ Render([Cur EXCEPT !.scn = s, !.config = data, !.error = NoError,
                                     !.saved = Serialize(data), !.loading = TRUE,
                                     !.calcReqs = calcReqs \cup {BootCalcReq(data)}])
          ELSE /\ bootPc' = "done"
               /\ UNCHANGED <<nextId, lastSaveTime>>
               /\ Render([Cur EXCEPT !.error = "getScenario", !.init = FALSE])
  /\ UNCHANGED <<scenarios, saveReqs, loadReqs, store, saveIssued, lastSaveId, nEdits, nLoads, clock,
                 sinceLoad, lsLastSave, unloadLog, nUnloads, hasInitialized, nMounts, appliedLoad>>

\* initialize(): await apiService.calculate(data)
initCalculate(ok) ==
  /\ bootPc = "calc"
  /\ \E r \in calcReqs :
       /\ r.src = "boot"
       /\ IF ok
            THEN Render([Cur EXCEPT !.results = [gen |-> 0, val |-> r.cfg.val],
                                    !.init = FALSE, !.loading = FALSE,
                                    !.calcReqs = calcReqs \ {r}])
            ELSE Render([Cur EXCEPT !.error = "calculate", !.init = FALSE,
                                    !.loading = FALSE, !.calcReqs = calcReqs \ {r}])
  /\ bootPc' = "done"
  /\ UNCHANGED <<scenarios, saveReqs, loadReqs, Env, Local>>

-----------------------------------------------------------------------------
\* updateConfig / updateArray / addArray / removeArray: a new object with
\* content v (possibly the content it had)
updateConfig(v) ==
  /\ config # NullCfg
  /\ nEdits' = nEdits + 1
  /\ nextId' = nextId + 1
  /\ Render([Cur EXCEPT !.config = NewCfg(v, config.scn)])
  /\ UNCHANGED <<bootPc, scenarios, saveReqs, loadReqs, store, saveIssued, lastSaveId, nLoads, clock,
                 sinceLoad, Local, unloadLog, nUnloads, hasInitialized, nMounts, appliedLoad>>

\* loadScenario(scenarioId), up to its await
loadScenario(s) ==
  /\ InCatalog(s, scenarios)
  /\ nLoads' = nLoads + 1
  /\ loadReqs' = loadReqs \cup {[n |-> nLoads + 1, kind |-> "load", scn |-> s]}
  /\ Render([Cur EXCEPT !.loading = TRUE])
  /\ UNCHANGED <<bootPc, scenarios, saveReqs, store, nextId, saveIssued, lastSaveId, nEdits, clock,
                 sinceLoad, Local, unloadLog, nUnloads, hasInitialized, nMounts, appliedLoad>>

\* resetScenario(currentScenario), up to its await
resetScenario ==
  /\ currentScenario # NoScenario
  /\ nLoads' = nLoads + 1
  /\ loadReqs' = loadReqs \cup {[n |-> nLoads + 1, kind |-> "reset", scn |-> currentScenario]}
  /\ Render([Cur EXCEPT !.loading = TRUE])
  /\ UNCHANGED <<bootPc, scenarios, saveReqs, store, nextId, saveIssued, lastSaveId, nEdits, clock,
                 sinceLoad, Local, unloadLog, nUnloads, hasInitialized, nMounts, appliedLoad>>

\* loadScenario after apiService.getScenario settled
loadScenarioDone(r, ok) ==
  /\ r \in loadReqs
  /\ r.kind = "load"
  /\ loadReqs' = loadReqs \ {r}
  /\ IF ok
       THEN /\ nextId' = nextId + 1
            /\ Render([Cur EXCEPT !.scn = r.scn, !.config = NewCfg(store[r.scn], r.scn),
                                  !.error = NoError, !.loading = FALSE])
       ELSE /\ nextId' = nextId
            /\ Render([Cur EXCEPT !.error = "getScenario", !.loading = FALSE])
  /\ appliedLoad' = IF ok THEN r.n ELSE appliedLoad
  /\ sinceLoad' = 0
  /\ UNCHANGED <<bootPc, scenarios, saveReqs, store, saveIssued, lastSaveId, nEdits, nLoads, clock, Local,
                 unloadLog, nUnloads, hasInitialized, nMounts>>

\* resetScenario after apiService.resetScenario settled
resetScenarioDone(r, ok) ==
  /\ r \in loadReqs
  /\ r.kind = "reset"
  /\ loadReqs' = loadReqs \ {r}
  /\ IF ok
       THEN /\ nextId' = nextId + 1
            /\ store' = [store EXCEPT ![r.scn] = Default(r.scn)]
            /\ Render([Cur EXCEPT !.config = NewCfg(Default(r.scn), r.scn),
                                  !.error = NoError, !.loading = FALSE])
       ELSE /\ UNCHANGED <<nextId, store>>
            /\ Render([Cur EXCEPT !.error = "resetScenario", !.loading = FALSE])
  /\ sinceLoad' = 0
  /\ UNCHANGED <<bootPc, scenarios, saveReqs, saveIssued, lastSaveId, nEdits, nLoads, clock, Local,
                 unloadLog, nUnloads, hasInitialized, nMounts, appliedLoad>>

-----------------------------------------------------------------------------
\* The timer of useDebounce fires: setDebouncedValue(value)
debounceFire ==
  /\ debounceTimer.on
  /\ debounceTimer.rem = 0
  /\ Render([Cur EXCEPT !.deb = debounceTimer.value, !.dtimer = TimerOff])
  /\ UNCHANGED <<bootPc, scenarios, saveReqs, loadReqs, Env, Local>>

\* saveScenario(scenarioId) with the config its closure holds, up to its await
saveScenario(scenarioId, cfg) ==
  IF cfg = NullCfg \/ scenarioId = NoScenario
    THEN UNCHANGED <<saveReqs, saveIssued, lastSaveId>>
    ELSE /\ saveReqs' = saveReqs \cup {[n |-> saveIssued + 1, scn |-> scenarioId, cfg |-> cfg,
                                          done |-> FALSE]}
         /\ saveIssued' = saveIssued + 1
         /\ lastSaveId' = cfg.id

\* The timer of the autosave effect fires: saveScenario(currentScenario)
autosaveFire ==
  /\ autosaveTimer.on
  /\ autosaveTimer.rem = 0
  /\ saveScenario(autosaveTimer.scn, autosaveTimer.cfg)
  /\ Render([Cur EXCEPT !.atimer = SaveTimerOff])
  /\ UNCHANGED <<bootPc, scenarios, loadReqs, store, nextId, nEdits, nLoads, clock,
                 sinceLoad, Local, unloadLog, nUnloads, hasInitialized, nMounts, appliedLoad>>

\* A catch of saveScenario that marks the configuration saved
saveScenarioCatchMarksSaved(h) ==
  [h EXCEPT !.error = "saveScenario", !.saved = Serialize(h.config), !.dirty = FALSE]

\* A catch of saveScenario that only logs
saveScenarioCatchSilent(h) == h

\* saveScenario, after the await: "Update last save time and mark saved"
saveScenarioThen(h, r) == [h EXCEPT !.saved = Serialize(r.cfg), !.dirty = FALSE]
\* saveScenario, catch
saveScenarioCatch(h) == [h EXCEPT !.error = "saveScenario"]

\* The server writes the configuration of a save request whose response is
\* still to come; a request it has not yet written when the response is
\* taken is written at that moment
saveProcessed(r) ==
  /\ r \in saveReqs
  /\ ~r.done
  /\ store' = [store EXCEPT ![r.scn] = r.cfg.val]
  /\ saveReqs' = (saveReqs \ {r}) \cup {[r EXCEPT !.done = TRUE]}
  /\ caught' = NoError
  /\ UNCHANGED <<bootPc, scenarios, currentScenario, config, debouncedConfig, results,
                 loading, initializing, error, lastSaveTime, lastSavedRef, isDirtyRef,
                 lsConfig, lsScenario, lsLastSave, calcReqs, loadReqs, debounceTimer,
                 autosaveTimer, nextId, calcIssued, saveIssued, lastCalcId, lastSaveId,
                 nEdits, nLoads, clock, sinceChange, sinceLoad, unloadLog, nUnloads,
                 hasInitialized, nMounts, appliedLoad>>
  /\ UNCHANGED <<mixVars, pollVars>>

\* saveScenario after apiService.saveScenario settled
saveScenarioDone(r, ok) ==
  /\ r \in saveReqs
  /\ saveReqs' = saveReqs \ {r}
  /\ IF ok
       THEN /\ store' = IF r.done THEN store ELSE [store EXCEPT ![r.scn] = r.cfg.val]
            /\ lsLastSave' = clock
            /\ lastSaveTime' = clock
            /\ clock' = clock + 1
            /\ Render(saveScenarioThen(Cur, r))
       ELSE /\ UNCHANGED <<store, lsLastSave, lastSaveTime, clock>>
            /\ Render(saveScenarioCatch(Cur))
  /\ UNCHANGED <<bootPc, scenarios, loadReqs, nextId, saveIssued, lastSaveId, nEdits, nLoads, sinceLoad, unloadLog, nUnloads, hasInitialized, nMounts, appliedLoad>>

\* calculate() after apiService.calculate settled
calculateDone(r, ok) ==
  /\ r \in calcReqs
  /\ r.src = "calculate"
  /\ IF ok
       THEN Render([Cur EXCEPT !.results = [gen |-> r.gen, val |-> r.cfg.val],
                               !.error = NoError, !.loading = FALSE,
                               !.calcReqs = calcReqs \ {r}])
       ELSE Render([Cur EXCEPT !.error = "calculate",
                               !.init = IF r.init THEN FALSE ELSE initializing,
                               !.loading = FALSE, !.calcReqs = calcReqs \ {r}])
  /\ UNCHANGED <<bootPc, scenarios, saveReqs, loadReqs, Env, Local>>

\* A handler that calls sendBeacon whatever the fetch did
unloadBeaconAlways(f, b) == IF b # "missing" THEN b ELSE "none"

\* The beforeunload handler: the keepalive fetch
unloadFetch(fetchOk) == IF fetchOk THEN "sent" ELSE "threw"
\* The beforeunload handler: navigator.sendBeacon, in the catch of the fetch;
\* b tells whether sendBeacon is missing, accepts the blob ("sent") or throws
unloadBeacon(f, b) == IF f = "threw" /\ b # "missing" THEN b ELSE "none"

\* The beforeunload handler; `delivered` tells whether a write that was sent
\* reaches the server
beforeunload(fetchOk, b, delivered) ==
  /\ nUnloads' = nUnloads + 1
  /\ IF currentScenario = NoScenario \/ config = NullCfg
          \/ lastSavedRef = Serialize(config)
       THEN /\ unloadLog' = NoUnload
            /\ Render(Cur)
            /\ UNCHANGED <<store, clock, Local>>
       ELSE LET f == unloadFetch(fetchOk)
                log == [fetch |-> f, beacon |-> unloadBeacon(f, b)]
            IN /\ unloadLog' = log
               /\ store' = IF delivered /\ (log.fetch = "sent" \/ log.beacon = "sent")
                             THEN [store EXCEPT ![currentScenario] = config.val]
                             ELSE store
               /\ lsLastSave' = clock
               /\ lastSaveTime' = clock
               /\ clock' = clock + 1
               /\ Render([Cur EXCEPT !.lsConfig = Serialize(config)])
  /\ UNCHANGED <<bootPc, scenarios, saveReqs, loadReqs, nextId, saveIssued, lastSaveId,
                 nEdits, nLoads, sinceLoad, hasInitialized, nMounts, appliedLoad>>

\* Time passes: d ms, no pending timer being due earlier
Tick(d) ==
  /\ bootPc # "mount"
  /\ debounceTimer.on => debounceTimer.rem >= d
  /\ autosaveTimer.on => autosaveTimer.rem >= d
  /\ debounceTimer.on \/ autosaveTimer.on \/ sinceLoad < SuppressionWindow
  /\ debounceTimer' = IF debounceTimer.on
                        THEN [debounceTimer EXCEPT !.rem = @ - d] ELSE debounceTimer
  /\ autosaveTimer' = IF autosaveTimer.on
                        THEN [autosaveTimer EXCEPT !.rem = @ - d] ELSE autosaveTimer
  /\ sinceChange' = Min(sinceChange + d, SinceCap)
  /\ sinceLoad' = Min(sinceLoad + d, SuppressionWindow)
  /\ caught' = NoError
  /\ UNCHANGED <<bootPc, scenarios, currentScenario, config, debouncedConfig, results,
                 loading, initializing, error, lastSaveTime, lastSavedRef, isDirtyRef,
                 lsConfig, lsScenario, lsLastSave, calcReqs, saveReqs, loadReqs, store,
                 nextId, calcIssued, saveIssued, lastCalcId, lastSaveId, nEdits, nLoads, clock,
                 unloadLog, nUnloads, hasInitialized, nMounts, appliedLoad>>
  /\ UNCHANGED <<mixVars, pollVars>>

\* The steps of the program that no user action starts
Program ==
  \/ nMounts = 0 /\ mountEffect
  \/ \E ok \in BOOLEAN : loadMedia(ok)
  \/ \E ok \in BOOLEAN, cat \in Catalogs : loadScenarios(ok, cat)
  \/ \E ok \in BOOLEAN : initGetScenario(ok)
  \/ \E ok \in BOOLEAN : initCalculate(ok)
  \/ debounceFire
  \/ autosaveFire
  \/ \E r \in saveReqs, ok \in BOOLEAN : saveScenarioDone(r, ok)
  \/ \E r \in calcReqs, ok \in BOOLEAN : calculateDone(r, ok)
  \/ \E d \in Steps : Tick(d)

\* The editor with a user who edits
NextSim ==
  \/ Program
  \/ \E v \in Vals : nEdits < MaxEdits /\ updateConfig(v)


\* The editor with a user who edits once and closes the page
NextUnload ==
  \/ Program
  \/ \E v \in Vals : nEdits < MaxUnloads /\ updateConfig(v)
  \/ \E fetchOk \in BOOLEAN, b \in {"missing", "sent", "threw"}, delivered \in BOOLEAN :
        nUnloads < MaxUnloads /\ beforeunload(fetchOk, b, delivered)

\* The bootstrap: the mount effect triggered again, remote calls that may
\* never settle, the safety timeout, and a user who edits once
NextBoot ==
  \/ Program
  \/ nMounts < MaxMounts /\ mountEffect
  \/ safetyTimeout
  \/ \E v \in Vals : nEdits < MaxBootEdits /\ updateConfig(v)

\* The editor with a user who loads a scenario while another load or a reset
\* is in flight, on a network where only the user's scenario fetches may fail
NextRace ==
  \/ nMounts = 0 /\ mountEffect
  \/ loadMedia(TRUE)
  \/ \E cat \in Catalogs : loadScenarios(TRUE, cat)
  \/ initGetScenario(TRUE)
  \/ initCalculate(TRUE)
  \/ debounceFire
  \/ autosaveFire
  \/ \E r \in saveReqs : saveScenarioDone(r, TRUE)
  \/ \E r \in calcReqs : calculateDone(r, TRUE)
  \/ \E d \in Steps : Tick(d)
  \/ \E s \in ScenarioIds :
        nLoads < MaxRaceLoads /\ (nLoads = 0 \/ loadReqs # {}) /\ loadScenario(s)
  \/ \E r \in loadReqs, ok \in BOOLEAN : loadScenarioDone(r, ok)
  \/ nLoads = 0 /\ resetScenario
  \/ \E r \in loadReqs : resetScenarioDone(r, TRUE)

\* The editor with a user who edits, on a network that fails no request and
\* a server that may write overlapping saves in another order than their
\* responses arrive
NextStore ==
  \/ nMounts = 0 /\ mountEffect
  \/ loadMedia(TRUE)
  \/ \E cat \in Catalogs : loadScenarios(TRUE, cat)
  \/ initGetScenario(TRUE)
  \/ initCalculate(TRUE)
  \/ debounceFire
  \/ autosaveFire
  \/ \E r \in saveReqs : saveProcessed(r)
  \/ \E r \in saveReqs : saveScenarioDone(r, TRUE)
  \/ \E r \in calcReqs : calculateDone(r, TRUE)
  \/ \E d \in Steps : Tick(d)
  \/ \E v \in Vals : nEdits < MaxStoreEdits /\ updateConfig(v)

\* The editor with a user who edits once and loads a scenario, on a network
\* that fails no request
NextSwitch ==
  \/ nMounts = 0 /\ mountEffect
  \/ loadMedia(TRUE)
  \/ \E cat \in Catalogs : loadScenarios(TRUE, cat)
  \/ initGetScenario(TRUE)
  \/ initCalculate(TRUE)
  \/ debounceFire
  \/ autosaveFire
  \/ \E r \in saveReqs : saveScenarioDone(r, TRUE)
  \/ \E r \in calcReqs : calculateDone(r, TRUE)
  \/ \E d \in Steps : Tick(d)
  \/ \E v \in Vals : nEdits < MaxSwitchEdits /\ updateConfig(v)
  \/ \E s \in ScenarioIds : nLoads < MaxSwitchLoads /\ loadScenario(s)
  \/ \E r \in loadReqs : loadScenarioDone(r, TRUE)

\* The editor with a user who loads and resets scenarios
NextLoad ==
  \/ Program
  \/ \E s \in ScenarioIds : nLoads < MaxLoads /\ loadScenario(s)
  \/ nLoads < MaxLoads /\ resetScenario
  \/ \E r \in loadReqs, ok \in BOOLEAN : loadScenarioDone(r, ok)
  \/ \E r \in loadReqs, ok \in BOOLEAN : resetScenarioDone(r, ok)


-----------------------------------------------------------------------------
\* ImageMixerProvider (components/mixer/ImageMixerContext.jsx, first
\* definition), the ControlPanel that schedules mixes and the ComponentViewer
\* whose ROI drag requests them.  Its timers are pending or not: the order in
\* which pending timers fire is left open.

\* What the region selects of the control panels offer
RegionModes == {"FULL", "INNER_OUTER", "INNER", "OUTER"}
\* imageWeights: 0 stands for no weight above zero, 1 and 2 for two settings
Weights == {0, 1, 2}
\* The indices of the output slots
Viewers == {0, 1}
RoiShown == regionMode = "INNER" \/ regionMode = "OUTER"
\* Array.from(files).slice(0, 4): the number of files of a bulk upload
FileCounts == 1..4
NoUpload == [n |-> 0, i |-> 0]
\* Math.round(a / b) for a >= 0 and b > 0
MathRound(a, b) == (2 * a + b) \div (2 * b)

InitMix ==
  /\ imageWeights = 0
  /\ regionMode = "FULL"
  /\ outputImages = 0
  /\ isMixing = FALSE
  /\ mixingProgress = 0
  /\ mixCancelToken = 0
  /\ currentOutputViewer = 0
  /\ outputSlots = [v \in Viewers |-> 0]
  /\ sentViewer = << >>
  /\ prevValuesRef = [imageWeights |-> 0, regionMode |-> "FULL", currentOutputViewer |-> 0]
  /\ controlTimeout = FALSE
  /\ isDragging = FALSE
  /\ dragClosure = [mixCancelToken |-> 0, regionMode |-> "FULL"]
  /\ updateTimeoutRef = FALSE
  /\ progressIntervals = {}
  /\ settleTimeouts = 0
  /\ mixReqs = {}
  /\ mixIssued = 0
  /\ uploadCall = NoUpload
  /\ nMixEdits = 0
  /\ nMoves = 0
  /\ nUploads = 0

\* The React state of the mixer a handler leaves behind, before the render
MixCur == [imageWeights |-> imageWeights, regionMode |-> regionMode,
           outputImages |-> outputImages, isMixing |-> isMixing,
           mixingProgress |-> mixingProgress, mixCancelToken |-> mixCancelToken,
           controlTimeout |-> controlTimeout,
           currentOutputViewer |-> currentOutputViewer, outputSlots |-> outputSlots,
           sentViewer |-> sentViewer]

\* ControlPanel, "Debounced effect for all mixing triggers": nw tells that
\* imageWeights is a new array; mixImages is rebuilt on [mixCancelToken]
ControlDepsChanged(h, nw) ==
  \/ nw
  \/ h.regionMode # regionMode
  \/ h.currentOutputViewer # currentOutputViewer
  \/ h.mixCancelToken # mixCancelToken
  \/ h.isMixing # isMixing
currentValues(h) == [imageWeights |-> h.imageWeights, regionMode |-> h.regionMode,
                     currentOutputViewer |-> h.currentOutputViewer]
\* An effect that does not compare the values with the previous ones
ControlSchedulesUntracked(h, nw) ==
  /\ ControlDepsChanged(h, nw)
  /\ ~h.isMixing
  /\ h.imageWeights > 0
ControlSchedules(h, nw) ==
  /\ ControlDepsChanged(h, nw)
  /\ ~h.isMixing
  /\ h.imageWeights > 0
  /\ currentValues(h) # prevValuesRef

\* The render of the mixer that follows a handler, with the ControlPanel effect
MixRender(h, nw) ==
  /\ imageWeights' = h.imageWeights
  /\ regionMode' = h.regionMode
  /\ outputImages' = h.outputImages
  /\ isMixing' = h.isMixing
  /\ mixingProgress' = h.mixingProgress
  /\ mixCancelToken' = h.mixCancelToken
  /\ currentOutputViewer' = h.currentOutputViewer
  /\ outputSlots' = h.outputSlots
  /\ sentViewer' = h.sentViewer
  /\ prevValuesRef' = IF ControlSchedules(h, nw) THEN currentValues(h) ELSE prevValuesRef
  /\ controlTimeout' = IF ControlDepsChanged(h, nw)
                         THEN ControlSchedules(h, nw) ELSE h.controlTimeout
  /\ UNCHANGED <<simVars, pollVars>>

\* mixImages as the closure holding token tok runs it, up to its await.  A
\* request it cancels rejects once mixImages has returned: the catch of the
\* cancelled call then runs in the same turn, after the updates of this call.
mixImages(tok, h) ==
  LET n == mixIssued + 1
      cancels == tok # 0 /\ tok \in mixReqs
  IN /\ mixIssued' = n
     /\ mixReqs' = (IF cancels THEN mixReqs \ {tok} ELSE mixReqs) \cup {n}
     /\ progressIntervals' = progressIntervals \cup {n}
     /\ MixRender(IF cancels
                    THEN [h EXCEPT !.isMixing = FALSE, !.mixCancelToken = 0,
                                   !.mixingProgress = 0,
                                   !.sentViewer = Append(@, h.currentOutputViewer)]
                    ELSE [h EXCEPT !.isMixing = TRUE, !.mixCancelToken = n,
                                   !.mixingProgress = 0,
                                   !.sentViewer = Append(@, h.currentOutputViewer)], FALSE)

\* newOutputImages[currentOutputViewerRef.current] = response.data.image_data
StoreOutput(slots, r) == [slots EXCEPT ![currentOutputViewer] = r]

\* mixImages after axios.post settled: a success, a response without
\* success, or an error
mixImagesDone(r, outcome) ==
  /\ r \in mixReqs
  /\ mixReqs' = mixReqs \ {r}
  /\ progressIntervals' = IF outcome = "error" THEN progressIntervals
                          ELSE progressIntervals \ {r}
  /\ settleTimeouts' = IF outcome = "ok" THEN settleTimeouts + 1 ELSE settleTimeouts
  /\ MixRender(IF outcome = "ok"
                 THEN [MixCur EXCEPT !.mixingProgress = 100, !.outputImages = r,
                                     !.outputSlots = StoreOutput(outputSlots, r),
                                     !.isMixing = FALSE, !.mixCancelToken = 0]
                 ELSE [MixCur EXCEPT !.mixingProgress = 0, !.isMixing = FALSE,
                                     !.mixCancelToken = 0], FALSE)
  /\ UNCHANGED <<isDragging, dragClosure, updateTimeoutRef, mixIssued, nMixEdits, nMoves, uploadCall, nUploads>>

\* The progress ticker of request t fires
progressInterval(t) ==
  /\ t \in progressIntervals
  /\ IF mixingProgress >= 90
       THEN /\ progressIntervals' = progressIntervals \ {t}
            /\ MixRender(MixCur, FALSE)
       ELSE /\ progressIntervals' = progressIntervals
            /\ MixRender([MixCur EXCEPT !.mixingProgress = @ + 10], FALSE)
  /\ UNCHANGED <<isDragging, dragClosure, updateTimeoutRef, settleTimeouts, mixReqs,
                 mixIssued, nMixEdits, nMoves, uploadCall, nUploads>>

\* setTimeout(() => setMixingProgress(0), 500) fires
settleTimeout ==
  /\ settleTimeouts > 0
  /\ settleTimeouts' = settleTimeouts - 1
  /\ MixRender([MixCur EXCEPT !.mixingProgress = 0], FALSE)
  /\ UNCHANGED <<isDragging, dragClosure, updateTimeoutRef, progressIntervals, mixReqs,
                 mixIssued, nMixEdits, nMoves, uploadCall, nUploads>>

\* ControlPanel: handleWeightChange
handleWeightChange(w) ==
  /\ nMixEdits' = nMixEdits + 1
  /\ MixRender([MixCur EXCEPT !.imageWeights = w], TRUE)
  /\ UNCHANGED <<isDragging, dragClosure, updateTimeoutRef, progressIntervals,
                 settleTimeouts, mixReqs, mixIssued, nMoves, uploadCall, nUploads>>

\* ControlPanel: the region select
setRegionMode(m) ==
  /\ m # regionMode
  /\ nMixEdits' = nMixEdits + 1
  /\ MixRender([MixCur EXCEPT !.regionMode = m], FALSE)
  /\ UNCHANGED <<isDragging, dragClosure, updateTimeoutRef, progressIntervals,
                 settleTimeouts, mixReqs, mixIssued, nMoves, uploadCall, nUploads>>

\* ControlPanel: the output viewer select
setCurrentOutputViewer(v) ==
  /\ v # currentOutputViewer
  /\ nMixEdits' = nMixEdits + 1
  /\ MixRender([MixCur EXCEPT !.currentOutputViewer = v], FALSE)
  /\ UNCHANGED <<isDragging, dragClosure, updateTimeoutRef, progressIntervals,
                 settleTimeouts, mixReqs, mixIssued, nMoves, uploadCall, nUploads>>

\* ControlPanel: the 300 ms timer fires
controlTimeoutFire ==
  /\ controlTimeout
  /\ mixImages(mixCancelToken, [MixCur EXCEPT !.controlTimeout = FALSE])
  /\ UNCHANGED <<isDragging, dragClosure, updateTimeoutRef, settleTimeouts, nMixEdits, nMoves, uploadCall, nUploads>>

\* ComponentViewer: handleRoiMouseDown; its handleMouseMove holds the
\* mixImages and the regionMode of this render
handleRoiMouseDown ==
  /\ RoiShown
  /\ ~isDragging
  /\ isDragging' = TRUE
  /\ dragClosure' = [mixCancelToken |-> mixCancelToken, regionMode |-> regionMode]
  /\ MixRender(MixCur, FALSE)
  /\ UNCHANGED <<updateTimeoutRef, progressIntervals, settleTimeouts, mixReqs,
                 mixIssued, nMixEdits, nMoves, uploadCall, nUploads>>

\* ComponentViewer: handleMouseMove restarts the 30 ms timer
handleMouseMove ==
  /\ isDragging
  /\ nMoves' = nMoves + 1
  /\ updateTimeoutRef' = TRUE
  /\ MixRender(MixCur, FALSE)
  /\ UNCHANGED <<isDragging, dragClosure, progressIntervals, settleTimeouts, mixReqs,
                 mixIssued, nMixEdits, uploadCall, nUploads>>

\* ComponentViewer: handleMouseUp
handleMouseUp ==
  /\ isDragging
  /\ isDragging' = FALSE
  /\ MixRender(MixCur, FALSE)
  /\ UNCHANGED <<dragClosure, updateTimeoutRef, progressIntervals, settleTimeouts,
                 mixReqs, mixIssued, nMixEdits, nMoves, uploadCall, nUploads>>

\* ComponentViewer: the 30 ms timer fires
updateTimeoutFire ==
  /\ updateTimeoutRef
  /\ updateTimeoutRef' = FALSE
  /\ IF dragClosure.regionMode = "INNER" \/ dragClosure.regionMode = "OUTER"
       THEN mixImages(dragClosure.mixCancelToken, MixCur)
       ELSE /\ MixRender(MixCur, FALSE)
            /\ UNCHANGED <<progressIntervals, mixReqs, mixIssued, uploadCall, nUploads>>
  /\ UNCHANGED <<isDragging, dragClosure, settleTimeouts, nMixEdits, nMoves, uploadCall, nUploads>>

\* uploadMultipleImages, from the button ControlPanel disables while
\* isMixing, up to the await of the first file
uploadMultipleImages(n) ==
  /\ ~isMixing
  /\ uploadCall = NoUpload
  /\ uploadCall' = [n |-> n, i |-> 0]
  /\ nUploads' = nUploads + 1
  /\ MixRender([MixCur EXCEPT !.isMixing = TRUE,
                              !.mixingProgress = MathRound(50, n)], FALSE)
  /\ UNCHANGED <<isDragging, dragClosure, updateTimeoutRef, progressIntervals,
                 settleTimeouts, mixReqs, mixIssued, nMixEdits, nMoves>>

\* uploadMultipleImages after the upload of file i settled, up to the await
\* of the next file or to the end
uploadMultipleImagesDone ==
  /\ uploadCall # NoUpload
  /\ LET i == uploadCall.i
         n == uploadCall.n
     IN IF i + 1 < n
          THEN /\ uploadCall' = [uploadCall EXCEPT !.i = i + 1]
               /\ settleTimeouts' = settleTimeouts
               /\ MixRender([MixCur EXCEPT !.mixingProgress =
                               MathRound((2 * (i + 1) + 1) * 50, n)], FALSE)
          ELSE /\ uploadCall' = NoUpload
               /\ settleTimeouts' = settleTimeouts + 1
               /\ MixRender([MixCur EXCEPT !.mixingProgress = MathRound((i + 1) * 100, n),
                                           !.isMixing = FALSE], FALSE)
  /\ UNCHANGED <<isDragging, dragClosure, updateTimeoutRef, progressIntervals, mixReqs,
                 mixIssued, nMixEdits, nMoves, nUploads>>

NextMix ==
  \/ \E w \in Weights : nMixEdits < MaxMixEdits /\ handleWeightChange(w)
  \/ \E m \in RegionModes : nMixEdits < MaxMixEdits /\ setRegionMode(m)
  \/ mixIssued < MaxMix /\ controlTimeoutFire
  \/ handleRoiMouseDown
  \/ nMoves < MaxMoves /\ handleMouseMove
  \/ handleMouseUp
  \/ mixIssued < MaxMix /\ updateTimeoutFire
  \/ \E r \in mixReqs, o \in {"ok", "rejected", "error"} : mixImagesDone(r, o)
  \/ \E t \in progressIntervals : progressInterval(t)
  \/ settleTimeout

\* The image mixer with a user who sets weights and switches the output
\* viewer
NextViewer ==
  \/ \E w \in Weights : nMixEdits < MaxViewerEdits /\ handleWeightChange(w)
  \/ \E v \in Viewers : nMixEdits < MaxViewerEdits /\ setCurrentOutputViewer(v)
  \/ mixIssued < MaxViewerMix /\ controlTimeoutFire
  \/ \E r \in mixReqs, o \in {"ok", "rejected", "error"} : mixImagesDone(r, o)
  \/ \E t \in progressIntervals : progressInterval(t)
  \/ settleTimeout

\* The image mixer with a user who sets a weight and uploads images
NextUpload ==
  \/ \E w \in Weights \ {0} : nMixEdits < MaxUploads /\ handleWeightChange(w)
  \/ mixIssued < MaxUploadMix /\ controlTimeoutFire
  \/ \E r \in mixReqs, o \in {"ok", "rejected", "error"} : mixImagesDone(r, o)
  \/ \E t \in progressIntervals : progressInterval(t)
  \/ settleTimeout
  \/ \E n \in FileCounts : nUploads < MaxUploads /\ uploadMultipleImages(n)
  \/ uploadMultipleImagesDone

-----------------------------------------------------------------------------
\* PartAPage (pages/MixerPage.jsx): handleMix and pollProgress, and the
\* server that runs the jobs.  The poll interval is pending or not.

NoJob == [status |-> "none", progress |-> 0, error |-> FALSE]
NoAlert == "none"
JobIds == 1..MaxJobs

InitPoll ==
  /\ outputs = <<0, 0>>
  /\ activeOutput = 1
  /\ mixing = FALSE
  /\ progress = -1
  /\ currentOperation = 0
  /\ handleMixCalls = {}
  /\ intervals = {}
  /\ pollClosure = [j \in JobIds |-> [outputs |-> <<0, 0>>, activeOutput |-> 1]]
  /\ polls = {}
  /\ jobs = [j \in JobIds |-> NoJob]
  /\ opsStarted = 0
  /\ alerted = NoAlert
  /\ mounted = TRUE
  /\ nClicks = 0
  /\ nPolls = 0
  /\ nSwitches = 0

\* The output tabs: setActiveOutput
setActiveOutput(k) ==
  /\ mounted
  /\ k # activeOutput
  /\ activeOutput' = k
  /\ nSwitches' = nSwitches + 1
  /\ UNCHANGED <<outputs, mixing, progress, currentOperation, handleMixCalls, intervals,
                 pollClosure, polls, jobs, opsStarted, nClicks, nPolls>>
  /\ alerted' = NoAlert
  /\ UNCHANGED <<mounted, simVars, mixVars>>

\* handleMix, from the click on the button MixerControls disables while
\* `mixing`, up to its first await
handleMix ==
  /\ mounted
  /\ ~mixing
  /\ nClicks' = nClicks + 1
  /\ LET call == [n |-> nClicks + 1, op |-> currentOperation,
                  outputs |-> outputs, activeOutput |-> activeOutput]
     IN IF currentOperation # 0
          THEN /\ handleMixCalls' = handleMixCalls \cup {call @@ [pc |-> "cancel"]}
               /\ UNCHANGED <<mixing, progress>>
          ELSE /\ handleMixCalls' = handleMixCalls \cup {call @@ [pc |-> "start"]}
               /\ mixing' = TRUE
               /\ progress' = 0
  /\ UNCHANGED <<outputs, activeOutput, currentOperation, intervals, pollClosure, polls,
                 jobs, opsStarted, nPolls, nSwitches>>
  /\ alerted' = NoAlert
  /\ UNCHANGED <<mounted, simVars, mixVars>>

\* A handleMix that gives up when its cancel request fails
handleMixCancelDoneAborts(c, ok, e) ==
  /\ c \in handleMixCalls
  /\ c.pc = "cancel"
  /\ jobs' = IF ok /\ jobs[c.op].status = "processing"
               THEN [jobs EXCEPT ![c.op].status = "cancelled", ![c.op].error = e]
               ELSE jobs
  /\ handleMixCalls' = IF ok THEN (handleMixCalls \ {c}) \cup {[c EXCEPT !.pc = "start"]}
                        ELSE handleMixCalls \ {c}
  /\ mixing' = ok
  /\ progress' = IF ok THEN 0 ELSE -1
  /\ UNCHANGED <<outputs, activeOutput, currentOperation, intervals, pollClosure, polls,
                 opsStarted, nClicks, nPolls, nSwitches>>
  /\ alerted' = NoAlert
  /\ UNCHANGED <<mounted, simVars, mixVars>>

\* handleMix after the cancel request settled
handleMixCancelDone(c, ok, e) ==
  /\ c \in handleMixCalls
  /\ c.pc = "cancel"
  /\ jobs' = IF ok /\ jobs[c.op].status = "processing"
               THEN [jobs EXCEPT ![c.op].status = "cancelled", ![c.op].error = e]
               ELSE jobs
  /\ handleMixCalls' = (handleMixCalls \ {c}) \cup {[c EXCEPT !.pc = "start"]}
  /\ mixing' = TRUE
  /\ progress' = 0
  /\ UNCHANGED <<outputs, activeOutput, currentOperation, intervals, pollClosure, polls,
                 opsStarted, nClicks, nPolls, nSwitches>>
  /\ alerted' = NoAlert
  /\ UNCHANGED <<mounted, simVars, mixVars>>

\* handleMix after the start request settled: pollProgress(operationId)
handleMixStartDone(c, ok) ==
  /\ c \in handleMixCalls
  /\ c.pc = "start"
  /\ handleMixCalls' = handleMixCalls \ {c}
  /\ IF ok
       THEN LET operationId == opsStarted + 1
            IN /\ opsStarted' = operationId
               /\ jobs' = [jobs EXCEPT ![operationId] = [status |-> "processing", progress |-> 0, error |-> FALSE]]
               /\ currentOperation' = operationId
               /\ intervals' = intervals \cup {operationId}
               /\ pollClosure' = [pollClosure EXCEPT ![operationId] =
                                    [outputs |-> c.outputs, activeOutput |-> c.activeOutput]]
               /\ UNCHANGED <<mixing, progress>>
       ELSE /\ mixing' = FALSE
            /\ progress' = -1
            /\ UNCHANGED <<opsStarted, jobs, currentOperation, intervals, pollClosure>>
  /\ alerted' = IF ok THEN NoAlert ELSE "Error starting mix operation"
  /\ UNCHANGED <<outputs, activeOutput, polls, nClicks, nPolls, nSwitches>>
  /\ UNCHANGED <<mounted, simVars, mixVars>>

\* pollProgress: the interval of job op fires and sends a status request
pollProgress(op) ==
  /\ op \in intervals
  /\ nPolls' = nPolls + 1
  /\ polls' = polls \cup {[n |-> nPolls + 1, op |-> op, status |-> "sent",
                          progress |-> 0, error |-> FALSE]}
  /\ UNCHANGED <<outputs, activeOutput, mixing, progress, currentOperation, handleMixCalls,
                 intervals, pollClosure, jobs, opsStarted, nClicks, nSwitches>>
  /\ alerted' = NoAlert
  /\ UNCHANGED <<mounted, simVars, mixVars>>

\* The server answers a status request with the job as it is then
mixProgress(p) ==
  /\ p \in polls
  /\ p.status = "sent"
  /\ polls' = (polls \ {p}) \cup {[p EXCEPT !.status = jobs[p.op].status,
                                             !.progress = jobs[p.op].progress,
                                             !.error = jobs[p.op].error]}
  /\ UNCHANGED <<outputs, activeOutput, mixing, progress, currentOperation, handleMixCalls,
                 intervals, pollClosure, jobs, opsStarted, nClicks, nPolls, nSwitches>>
  /\ alerted' = NoAlert
  /\ UNCHANGED <<mounted, simVars, mixVars>>

\* A pollProgress callback whose catch leaves the interval running
pollProgressDoneKeepsInterval(p, ok) ==
  /\ p \in polls
  /\ ok <=> p.status # "sent"
  /\ polls' = polls \ {p}
  /\ IF ~ok
       THEN /\ mixing' = FALSE
            /\ progress' = -1
            /\ UNCHANGED <<intervals, outputs, currentOperation>>
       ELSE IF p.status = "completed"
         THEN /\ intervals' = intervals \ {p.op}
              /\ mixing' = FALSE
              /\ progress' = -1
              /\ outputs' = [pollClosure[p.op].outputs EXCEPT
                               ![pollClosure[p.op].activeOutput] = p.op]
              /\ currentOperation' = 0
         ELSE IF p.status = "failed" \/ p.status = "cancelled"
           THEN /\ intervals' = intervals \ {p.op}
                /\ mixing' = FALSE
                /\ progress' = -1
                /\ currentOperation' = 0
                /\ UNCHANGED outputs
           ELSE /\ progress' = p.progress
                /\ UNCHANGED <<intervals, mixing, outputs, currentOperation>>
  /\ alerted' = IF ok /\ (p.status = "failed" \/ p.status = "cancelled") /\ p.error
                  THEN "Mixing failed" ELSE NoAlert
  /\ UNCHANGED <<activeOutput, handleMixCalls, pollClosure, jobs, opsStarted, nClicks,
                 nPolls, nSwitches>>
  /\ UNCHANGED <<mounted, simVars, mixVars>>

\* pollProgress: the callback after its request settled; a request the
\* server has answered succeeds, one it has not answered fails
pollProgressDone(p, ok) ==
  /\ p \in polls
  /\ ok <=> p.status # "sent"
  /\ polls' = polls \ {p}
  /\ IF ~ok
       THEN /\ intervals' = intervals \ {p.op}
            /\ mixing' = FALSE
            /\ progress' = -1
            /\ UNCHANGED <<outputs, currentOperation>>
       ELSE IF p.status = "completed"
         THEN /\ intervals' = intervals \ {p.op}
              /\ mixing' = FALSE
              /\ progress' = -1
              /\ outputs' = [pollClosure[p.op].outputs EXCEPT
                               ![pollClosure[p.op].activeOutput] = p.op]
              /\ currentOperation' = 0
         ELSE IF p.status = "failed" \/ p.status = "cancelled"
           THEN /\ intervals' = intervals \ {p.op}
                /\ mixing' = FALSE
                /\ progress' = -1
                /\ currentOperation' = 0
                /\ UNCHANGED outputs
           ELSE /\ progress' = p.progress
                /\ UNCHANGED <<intervals, mixing, outputs, currentOperation>>
  /\ alerted' = IF ok /\ (p.status = "failed" \/ p.status = "cancelled") /\ p.error
                  THEN "Mixing failed" ELSE NoAlert
  /\ UNCHANGED <<activeOutput, handleMixCalls, pollClosure, jobs, opsStarted, nClicks,
                 nPolls, nSwitches>>
  /\ UNCHANGED <<mounted, simVars, mixVars>>

\* The server works on a job, finishes it or fails it
jobStep(op, failed, e) ==
  /\ jobs[op].status = "processing"
  /\ jobs' = [jobs EXCEPT ![op] =
                IF failed THEN [@ EXCEPT !.status = "failed", !.error = e]
                ELSE IF @.progress = 50
                  THEN [status |-> "completed", progress |-> 100, error |-> FALSE]
                ELSE [@ EXCEPT !.progress = 50]]
  /\ UNCHANGED <<outputs, activeOutput, mixing, progress, currentOperation, handleMixCalls,
                 intervals, pollClosure, polls, opsStarted, nClicks, nPolls, nSwitches>>
  /\ alerted' = NoAlert
  /\ UNCHANGED <<mounted, simVars, mixVars>>

\* The user leaves the page: PartAPage is torn down.  It registers no cleanup,
\* so nothing is cleared.
unmount ==
  /\ mounted
  /\ mounted' = FALSE
  /\ alerted' = NoAlert
  /\ UNCHANGED <<outputs, activeOutput, mixing, progress, currentOperation, handleMixCalls,
                 intervals, pollClosure, polls, jobs, opsStarted, nClicks, nPolls, nSwitches>>
  /\ UNCHANGED <<simVars, mixVars>>

NextPoll ==
  \/ \E k \in {1, 2} : nSwitches < MaxSwitches /\ setActiveOutput(k)
  \/ nClicks < MaxJobs /\ handleMix
  \/ \E c \in handleMixCalls, ok \in BOOLEAN, e \in BOOLEAN : handleMixCancelDone(c, ok, e)
  \/ \E c \in handleMixCalls, ok \in BOOLEAN : handleMixStartDone(c, ok)
  \/ \E op \in intervals : nPolls < MaxPolls /\ pollProgress(op)
  \/ \E p \in polls : mixProgress(p)
  \/ \E p \in polls, ok \in BOOLEAN : pollProgressDone(p, ok)
  \/ \E op \in JobIds, failed \in BOOLEAN, e \in BOOLEAN : jobStep(op, failed, e)
  \/ unmount

-----------------------------------------------------------------------------
\* The specifications: both providers are constructed; each specification
\* drives one of them.
Init == InitSim /\ InitMix /\ InitPoll

\* The simulator with a user who edits
SpecSim == Init /\ [][NextSim]_vars

\* The simulator with a user who edits, timers that fire and time that passes
SpecSimFair ==
  /\ SpecSim
  /\ WF_vars(\E d \in Steps : Tick(d))
  /\ WF_vars(debounceFire)
  /\ WF_vars(autosaveFire)

\* The simulator with a user who loads and resets scenarios
SpecLoad == Init /\ [][NextLoad]_vars

\* The simulator with a user who loads scenarios in quick succession
SpecRace == Init /\ [][NextRace]_vars

\* The simulator with a server that writes overlapping saves in any order
SpecStore == Init /\ [][NextStore]_vars

\* The simulator with a user who edits and switches scenarios
SpecSwitch == Init /\ [][NextSwitch]_vars

\* The same, with timers that fire, time that passes and requests that are
\* all answered
SpecSwitchFair ==
  /\ SpecSwitch
  /\ WF_vars(nMounts = 0 /\ mountEffect)
  /\ WF_vars(loadMedia(TRUE))
  /\ WF_vars(\E cat \in Catalogs : loadScenarios(TRUE, cat))
  /\ WF_vars(initGetScenario(TRUE))
  /\ WF_vars(initCalculate(TRUE))
  /\ WF_vars(\E d \in Steps : Tick(d))
  /\ WF_vars(debounceFire)
  /\ WF_vars(autosaveFire)
  /\ WF_vars(\E r \in saveReqs : saveScenarioDone(r, TRUE))
  /\ WF_vars(\E r \in calcReqs : calculateDone(r, TRUE))
  /\ WF_vars(\E r \in loadReqs : loadScenarioDone(r, TRUE))

\* The simulator with a user who edits once and closes the page
SpecUnload == Init /\ [][NextUnload]_vars

\* The bootstrap of the simulator
SpecBoot == Init /\ [][NextBoot]_vars

\* The bootstrap with a safety timeout that fires; no remote call has to settle
SpecBootFair ==
  /\ SpecBoot
  /\ WF_vars(nMounts = 0 /\ mountEffect)
  /\ WF_vars(safetyTimeout)

\* The image mixer
SpecMix == Init /\ [][NextMix]_vars

\* The image mixer with its output viewer select
SpecViewer == Init /\ [][NextViewer]_vars

\* The image mixer with bulk uploads
SpecUpload == Init /\ [][NextUpload]_vars

\* The same, with timers that fire and requests and uploads that settle
SpecUploadFair ==
  /\ SpecUpload
  /\ WF_vars(mixIssued < MaxUploadMix /\ controlTimeoutFire)
  /\ WF_vars(\E r \in mixReqs, o \in {"ok", "rejected", "error"} : mixImagesDone(r, o))
  /\ WF_vars(\E t \in progressIntervals : progressInterval(t))
  /\ WF_vars(settleTimeout)
  /\ WF_vars(uploadMultipleImagesDone)

\* The mixer page and its job poller
SpecPoll == Init /\ [][NextPoll]_vars

-----------------------------------------------------------------------------
\* Steps, told by what they change
CalcIssuedStep == calcIssued' = calcIssued + 1
SaveIssuedStep == saveIssued' = saveIssued + 1
SaveOkStep     == clock' = clock + 1
SaveFailStep   == saveReqs' # saveReqs /\ saveReqs' \subseteq saveReqs /\ clock' = clock
Dirty          == lastSavedRef # Serialize(config)

\* The configuration bootstrap installs has identity 1; the later ones are
\* made by the user's edits
Edited(c) == c.id > 1

\* C1: the result of a calculate call is never replaced by the result of a
\* call issued before it: whatever the order of the responses, the visible
\* result is never the one of a superseded call.
C1_StaleResultNeverApplied ==
  [][(results' # results /\ results'.gen >= 1) => results'.gen > results.gen]_vars

\* C2: a calculate call for an edited configuration is issued only for the
\* newest configuration, 400 ms after its last change, and once: no second
\* call carries the same configuration.
C2_OneCallPerBurst ==
  [][CalcIssuedStep =>
       \A r \in calcReqs' \ calcReqs :
          Edited(r.cfg) =>
            /\ r.cfg = config
            /\ sinceChange = DebounceDelay
            /\ r.cfg.id # lastCalcId]_vars

\* C3: with a configuration present, the dirty flag tells whether the
\* serialization of the configuration differs from the last saved snapshot.
C3_DirtyIffDiffers ==
  config # NullCfg => (isDirtyRef <=> Dirty)

\* C4: no saveScenario call is issued while a load or reset fetch is in
\* flight or less than the suppression delay after it completed.
C4_NoSaveWhileSuppressed ==
  [][SaveIssuedStep => (loadReqs = {} /\ sinceLoad >= SuppressionWindow)]_vars

\* C5: a saveScenario call is issued only when the configuration is dirty.
C5_SaveOnlyWhenDirty ==
  [][SaveIssuedStep => (isDirtyRef /\ Dirty)]_vars

\* C6: once the user stops editing, a saveScenario call carrying the final
\* configuration has been issued; a call is issued only 400 + 500 ms after the
\* last change of the configuration and carries the configuration of that
\* moment; a save that succeeds leaves the dirty flag false, and a false dirty
\* flag stays false while the configuration is not changed.
C6_EditEventuallySaved ==
  /\ <>[](nEdits >= 1 => lastSaveId = config.id)
  /\ [][SaveIssuedStep =>
          /\ sinceChange = SinceCap
          /\ \A r \in saveReqs' \ saveReqs : r.cfg = config]_vars
  /\ [][SaveOkStep => ~isDirtyRef']_vars
  /\ [][(~isDirtyRef /\ config' = config) => ~isDirtyRef']_vars

\* An edited configuration was saved, the save succeeded and the flag is false
C6_Witness ==
  /\ nEdits >= 1
  /\ Edited(config)
  /\ lastSaveId = config.id
  /\ saveReqs = {}
  /\ lastSavedRef = Serialize(config)
  /\ lastSaveTime >= 2
  /\ ~isDirtyRef

\* C7: a save that fails sets the error slot and leaves the last saved
\* snapshot, the last save time, the stored LAST_SAVE and the dirty flag as
\* they were; a save that succeeds sets the dirty flag false and updates the
\* snapshot, the last save time and the stored LAST_SAVE.
C7_FailedSaveKeepsRecord ==
  [][/\ SaveFailStep =>
          /\ error' = "saveScenario"
          /\ lastSavedRef' = lastSavedRef
          /\ lastSaveTime' = lastSaveTime
          /\ lsLastSave' = lsLastSave
          /\ isDirtyRef' = isDirtyRef
     /\ SaveOkStep =>
          /\ ~isDirtyRef'
          /\ \E r \in saveReqs \ saveReqs' : lastSavedRef' = Serialize(r.cfg)
          /\ lastSaveTime' = clock
          /\ lsLastSave' = clock]_vars

\* A save of a dirty configuration failed: the error is set, nothing was ever
\* saved and the configuration is still dirty
C7_Witness ==
  /\ saveIssued >= 1
  /\ saveReqs = {}
  /\ error = "saveScenario"
  /\ isDirtyRef
  /\ Dirty
  /\ lastSaveTime < 2
  /\ lsLastSave < 2

\* C8: at most one /mix/ request that has not been cancelled is in flight.
C8_AtMostOneMixInFlight ==
  Cardinality(mixReqs) <= 1

\* C9: a response that modifies outputImages is the response of the most
\* recently issued /mix/ request.
C9_OnlyLatestMixApplied ==
  [][outputImages' # outputImages => outputImages' = mixIssued]_vars

\* C10: a result written into a slot of `outputs` is the result of the most
\* recently started job.
C10_OnlyLatestJobWritesOutputs ==
  [][\A k \in {1, 2} :
        (outputs'[k] # outputs[k] /\ outputs'[k] # 0) => outputs'[k] = opsStarted]_vars

\* C11: while a /mix/ request is in flight, a step that neither starts nor
\* settles a request does not lower mixingProgress: within a generation the
\* progress never decreases, whatever timer fires.
C11_ProgressMonotonicInGeneration ==
  [][(mixReqs # {} /\ mixReqs' = mixReqs /\ mixIssued' = mixIssued)
       => mixingProgress' >= mixingProgress]_vars

\* A step of a progress ticker: the progress rises and no request, upload or
\* settle timer changes
TickerStep ==
  /\ mixingProgress' > mixingProgress
  /\ UNCHANGED <<uploadCall, mixReqs, settleTimeouts, mixIssued>>

\* C12: mixingProgress is within [0,100] in every state and no step of a
\* progress ticker raises it above 90.
C12_ProgressBounded ==
  /\ [](mixingProgress >= 0 /\ mixingProgress <= 100)
  /\ [][TickerStep => mixingProgress' <= 90]_vars

\* A run of the beforeunload handler
UnloadStep == nUnloads' = nUnloads + 1
Bound == currentScenario # NoScenario /\ config # NullCfg

\* C13: when the handler fires with a scenario and a configuration: if the
\* serialization differs from the last saved snapshot the keepalive fetch is
\* tried, sendBeacon is tried only if the fetch threw, and at most one of the
\* two transports takes the write; if it does not differ, neither is tried.
C13_UnloadWritesOnceIfDirty ==
  [][(UnloadStep /\ Bound) =>
       IF Dirty
         THEN /\ unloadLog'.fetch # "none"
              /\ unloadLog'.beacon # "none" => unloadLog'.fetch = "threw"
              /\ ~(unloadLog'.fetch = "sent" /\ unloadLog'.beacon = "sent")
         ELSE unloadLog' = NoUnload]_vars

\* The handler ran on a dirty configuration, the fetch threw and sendBeacon
\* took the write
C13_Witness ==
  /\ nUnloads = 1
  /\ unloadLog = [fetch |-> "threw", beacon |-> "sent"]
  /\ Bound
  /\ lsLastSave >= 2

\* C14: when the handler fires with a scenario and a configuration, it writes
\* the serialization of the configuration and a new timestamp to
\* localStorage, whatever the dirty state and the transports did.
C14_UnloadAlwaysWritesLocal ==
  [][(UnloadStep /\ Bound) =>
       /\ lsConfig' = Serialize(config)
       /\ lsLastSave' = clock
       /\ clock' = clock + 1]_vars

\* The step of initialize() that follows the catalog fetch, and the one that
\* follows its getScenario
CatalogStep == bootPc = "scenarios" /\ bootPc' # "scenarios"
BootFetchStep == bootPc = "getScenario" /\ bootPc' = "calc"
CachedListed == \E i \in 1..Len(scenarios') : scenarios'[i] = lsScenario

\* C15: after the catalog fetch, if the cached scenario id is in the catalog
\* and a cached configuration exists, the configuration is restored from the
\* cache and no getScenario request is issued; otherwise getScenario is issued
\* for the first catalog entry, whose configuration is then loaded; with an
\* empty catalog nothing is loaded.
C15_BootstrapRestoresOrFetches ==
  [][/\ CatalogStep =>
          IF Len(scenarios') = 0
            THEN bootPc' = "done" /\ config' = NullCfg /\ currentScenario' = NoScenario
          ELSE IF lsScenario # NoScenario /\ lsConfig # NullStr /\ CachedListed
            THEN /\ bootPc' = "calc"
                 /\ currentScenario' = lsScenario
                 /\ Serialize(config') = lsConfig
            ELSE bootPc' = "getScenario" /\ config' = NullCfg
     /\ BootFetchStep =>
          /\ currentScenario' = scenarios[1]
          /\ Serialize(config') = store[scenarios[1]]]_vars

\* The configuration was restored from the cache: bootstrap is at its first
\* calculation and nothing was fetched (lastSavedRef is still null)
C15_Witness ==
  /\ bootPc = "calc"
  /\ currentScenario = "B"
  /\ config # NullCfg
  /\ lastSavedRef = NullStr


\* A run of the mount effect
MountStep == nMounts' = nMounts + 1

\* C16: the bootstrap sequence runs at most once: a run of the mount effect
\* that finds hasInitialized set issues no remote call and changes no state,
\* and bootstrap is started only by a run that finds it clear.
C16_BootstrapAtMostOnce ==
  [][/\ (MountStep /\ hasInitialized) => UNCHANGED <<ProviderState, hasInitialized>>
     /\ (bootPc' = "media" /\ bootPc # "media") => (MountStep /\ ~hasInitialized)
     /\ hasInitialized => hasInitialized']_vars

\* The mount effect has run again while the first calculation was awaited
C16_Witness == nMounts = 2 /\ hasInitialized /\ bootPc = "calc"


\* A step of initialize() that ends the bootstrap: the first calculation
\* settled, the scenario fetch failed, the catalog came back empty or failed
BootEndStep == bootPc # "done" /\ bootPc' = "done"

\* C17: `initializing` is eventually cleared on every bootstrap path: every
\* step that ends initialize() leaves it false, it is never set again, and
\* when the remote calls never settle the safety timeout clears it.
C17_InitializingEventuallyCleared ==
  /\ [][BootEndStep => ~initializing']_vars
  /\ [][(~initializing /\ hasInitialized) => ~initializing']_vars
  /\ <>[](~initializing)

\* The safety timeout has cleared the flag while loadMedia() was still awaited
C17_Witness == ~initializing /\ bootPc = "media" /\ hasInitialized


\* C18: once a change of the configuration or of the scenario is processed,
\* the CONFIG slot of the local cache holds the serialization of the current
\* configuration and the CURRENT_SCENARIO slot the current scenario id,
\* whenever these are non-null.
C18_LocalCacheMirrorsState ==
  /\ config # NullCfg => lsConfig = Serialize(config)
  /\ currentScenario # NoScenario => lsScenario = currentScenario

\* After an edit, on a scenario the cache did not name at the start
C18_Witness ==
  /\ nEdits >= 1
  /\ config # NullCfg /\ lsConfig = Serialize(config)
  /\ currentScenario = "A" /\ lsScenario = "A"


\* Steps in which a catch clause ran: a request leaves the set in flight and
\* the success branch has left no mark (a new result, a new configuration
\* object, a new save time)
CalcCaughtStep == \E r \in calcReqs : r \notin calcReqs' /\ results' = results
LoadCaughtStep(k) ==
  \E r \in loadReqs : r.kind = k /\ r \notin loadReqs' /\ config' = config
BootFetchCaughtStep == bootPc = "getScenario" /\ bootPc' = "done"
\* The remote operation whose failure the step handled
Caught ==
  IF caught' # NoError THEN caught'
  ELSE IF CalcCaughtStep THEN "calculate"
  ELSE IF SaveFailStep THEN "saveScenario"
  ELSE IF LoadCaughtStep("reset") THEN "resetScenario"
  ELSE IF LoadCaughtStep("load") \/ BootFetchCaughtStep THEN "getScenario"
  ELSE NoError
\* The operations that raise `loading` before their await
RaisesLoading == CalcCaughtStep \/ LoadCaughtStep("load") \/ LoadCaughtStep("reset")

\* C19 as stated: every failure of a remote operation is turned into state by
\* the operation itself: the error slot holds the failure's message and
\* `loading` is false (unless the commit itself starts a new calculate call).
C19_FailureSetsErrorAndClearsLoading ==
  [][Caught # NoError => (error' = Caught /\ (~loading' \/ CalcIssuedStep))]_vars

\* C19 amended: every failure sets the error slot to its message; the
\* operations that raise `loading` reset it to false, the others (saveScenario,
\* getScenarios, getMedia, the bootstrap's getScenario) leave it as it is.
C19_FailureSetsErrorOwnerClearsLoading ==
  [][Caught # NoError =>
       /\ error' = Caught
       /\ CalcIssuedStep \/ (IF RaisesLoading THEN ~loading' ELSE loading' = loading)]_vars

\* A reset has failed: its message is in the error slot and the flag is down
C19_Witness == error = "resetScenario" /\ ~loading /\ loadReqs = {} /\ nLoads = 1


\* C20: a failed remote operation is abandoned: the step that handles the
\* failure of a calculate, saveScenario or getScenario request issues no new
\* request of the same kind.
C20_NoAutomaticRetry ==
  [][/\ CalcCaughtStep => ~CalcIssuedStep
     /\ SaveFailStep => ~SaveIssuedStep
     /\ (LoadCaughtStep("load") \/ BootFetchCaughtStep) => loadReqs' \subseteq loadReqs]_vars


\* The callback of a status request that reported `cancelled` has run
CancelledPollStep == \E p \in polls : p \notin polls' /\ p.status = "cancelled"

\* C21: a cancellation is never surfaced as an error: the callback of a
\* status response that reports `cancelled` shows no failure alert.
C21_CancellationNotAlerted ==
  [][CancelledPollStep => alerted' = NoAlert]_vars


\* The response of the loadScenario call r is applied: a new configuration
\* object is installed
LoadAppliedStep(r) == r.kind = "load" /\ r \notin loadReqs' /\ config' # config

\* C22: when two loadScenario calls overlap, the later call wins whatever
\* the order of the responses: a response is never applied after the response
\* of a later call was applied.
C22_LastTriggeredLoadWins ==
  [][\A r \in loadReqs : LoadAppliedStep(r) => r.n > appliedLoad]_vars


\* useDebounce emits: its output changes
EmitStep == debouncedConfig' # debouncedConfig

\* C23: useDebounce changes its output to v only when its input has been v
\* for the whole delay: the emitted value is the present input, the input
\* has not changed for DebounceDelay ms, and the emission leaves no timer
\* pending; no intermediate value of a burst is emitted.
C23_DebounceEmitsSettledInput ==
  [][EmitStep => /\ debouncedConfig' = config
                 /\ config' = config
                 /\ sinceChange >= DebounceDelay
                 /\ ~debounceTimer'.on]_vars

\* The second edit of a burst has been emitted, 400 ms after it was made
C23_Witness ==
  /\ nEdits = 2
  /\ debouncedConfig = config
  /\ Edited(debouncedConfig)
  /\ sinceChange = DebounceDelay
  /\ ~debounceTimer.on


\* The interval of job op fires and sends a status request
PollSentStep(op) == nPolls' = nPolls + 1 /\ \E p \in polls' \ polls : p.op = op

\* C24: no poll interval outlives its job's turn: a status request is sent
\* only for the most recently started job and only while the page is mounted.
C24_NoPollAfterSupersedeOrTeardown ==
  [][\A op \in JobIds : PollSentStep(op) => (op = opsStarted /\ mounted)]_vars


\* A mix request fails or is cancelled: it leaves the set in flight and the
\* output is not written
MixFailedStep == \E r \in mixReqs : r \notin mixReqs' /\ outputImages' = outputImages

\* C25: when a mix request fails or is cancelled its ticker is stopped and
\* the progress is reset to 0 (unless the step starts a new mixImages call),
\* and the ticker of a request that is no longer in flight never increments
\* the progress.
C25_FailedMixStopsTicker ==
  [][/\ (MixFailedStep /\ mixIssued' = mixIssued) => mixingProgress' = 0
     /\ TickerStep => mixReqs # {}]_vars


\* The cancel request of a handleMix call settles
CancelSettledStep(c) == c.pc = "cancel" /\ c \notin handleMixCalls'
\* The start request of a handleMix call succeeds
StartOkStep == opsStarted' = opsStarted + 1

\* C26: handleMix issues its start request only once the cancel request for
\* the recorded operation has settled; whether the cancel succeeded or
\* failed, the call goes on to the start request without an alert, and a
\* started job is recorded and polled.
C26_CancelThenStart ==
  [][/\ \A c \in handleMixCalls' \ handleMixCalls :
          (c.pc = "start" /\ c.op # 0) => [c EXCEPT !.pc = "cancel"] \in handleMixCalls
     /\ \A c \in handleMixCalls :
          CancelSettledStep(c) => /\ [c EXCEPT !.pc = "start"] \in handleMixCalls'
                                  /\ mixing' /\ progress' = 0
                                  /\ alerted' = NoAlert
     /\ StartOkStep => /\ currentOperation' = opsStarted'
                        /\ opsStarted' \in intervals']_vars

\* The cancel request for job 1 failed (the job is still processing) and
\* job 2 has been started and is polled
C26_Witness ==
  /\ opsStarted = 2
  /\ jobs[1].status = "processing"
  /\ 2 \in intervals
  /\ handleMixCalls = {}


\* The status values that end a job
TerminalStatus == {"completed", "failed", "cancelled"}
\* A pollProgress callback runs for poll p
PollDeliveredStep(p) == polls' = polls \ {p}

\* C27: the callback of a status response that reports completed, failed or
\* cancelled, and the callback of a failed status request, clear the
\* interval of their loop, set mixing to false and clear progress; the
\* terminal ones clear the current-operation id too.
C27_PollLoopStops ==
  [][\A p \in polls :
       (PollDeliveredStep(p) /\ p.status \in TerminalStatus \cup {"sent"}) =>
          /\ p.op \notin intervals'
          /\ ~mixing'
          /\ progress' = -1
          /\ p.status \in TerminalStatus => currentOperation' = 0]_vars

\* Job 1 failed on the server, its status response came back and the loop
\* is gone
C27_Witness ==
  /\ jobs[1].status = "failed"
  /\ opsStarted = 1
  /\ nPolls > 0
  /\ polls = {}
  /\ intervals = {}
  /\ ~mixing /\ progress = -1 /\ currentOperation = 0


\* A calculate request carrying configuration c is issued
CalcIssuedFor(c) == CalcIssuedStep /\ \E r \in calcReqs' \ calcReqs : r.cfg = c

AutosaveSent == saveReqs' \ saveReqs

\* C29: the configuration an autosave sends is the debounced configuration
\* of the emission that armed it, the one the calculate effect acted on: if
\* it holds arrays, the latest calculate call carried that very
\* configuration.
C29_AutosaveSendsDebounced ==
  [][SaveIssuedStep =>
       \A r \in AutosaveSent :
         /\ r.cfg = debouncedConfig
         /\ HasArrays(r.cfg) => lastCalcId = r.cfg.id]_vars

\* An edited configuration with arrays was emitted, calculated and then
\* sent by the autosave
C29_Witness ==
  /\ Edited(debouncedConfig)
  /\ HasArrays(debouncedConfig)
  /\ lastCalcId = debouncedConfig.id
  /\ \E r \in saveReqs : r.cfg = debouncedConfig /\ r.n = saveIssued


\* Bootstrap has installed a configuration
BootLoaded == bootPc \in {"calc", "done"} /\ config # NullCfg
\* The user edits the configuration or loads a scenario
UserChangeStep == nEdits' # nEdits \/ nLoads' # nLoads

\* C30: when bootstrap fetches the first catalog entry, the last saved
\* snapshot becomes the serialization of the fetched configuration and the
\* configuration is not dirty; as long as the user has changed nothing it
\* stays so through every step that is not a change of the user.
C30_FetchedBootIsClean ==
  [][/\ BootFetchStep => (lastSavedRef' = Serialize(config') /\ ~isDirtyRef')
     /\ (BootLoaded /\ nEdits = 0 /\ nLoads = 0 /\ ~Dirty /\ ~isDirtyRef /\ ~UserChangeStep)
          => (~Dirty' /\ ~isDirtyRef')]_vars

\* Bootstrap fetched scenario A and ended; nothing was edited or saved, and
\* the snapshot is the serialization of the fetched configuration
C30_Witness ==
  /\ bootPc = "done"
  /\ currentScenario = "A"
  /\ config # NullCfg
  /\ nEdits = 0
  /\ saveIssued = 0
  /\ lastSavedRef = Serialize(config)
  /\ ~isDirtyRef


\* C31: the configuration in memory is one of the scenario currentScenario
\* names, and every save request stores under a scenario id a configuration
\* that originates from that scenario.
C31_ConfigBelongsToCurrentScenario ==
  /\ (config # NullCfg /\ currentScenario # NoScenario) => config.scn = currentScenario
  /\ \A r \in saveReqs : r.cfg.scn = r.scn


\* C32: whenever no save is in flight and the configuration equals the last
\* saved snapshot, the remote store's copy of the current scenario equals
\* the configuration.
C32_CleanMeansStored ==
  (saveReqs = {} /\ Bound /\ ~Dirty) => store[currentScenario] = Serialize(config)


\* C33: provided saves succeed, every edit is eventually persisted under the
\* id of the scenario it was made in: once the configuration is the user's
\* edit of scenario x with content v (no loadScenario response has replaced
\* it), the store's copy of x eventually is v.
C33_EditEventuallyPersisted ==
  \A x \in ScenarioIds, v \in Vals :
    (Edited(config) /\ appliedLoad = 0 /\ config.scn = x /\ config.val = v)
      ~> (store[x] = v)


\* A successful loadScenario or resetScenario installs the configuration it
\* received
LoadInstalledStep == loadReqs' # loadReqs /\ loadReqs' \subseteq loadReqs /\ config' # config

\* C35: right after a successful loadScenario or resetScenario the
\* configuration is not dirty: the last saved snapshot is the serialization
\* of the configuration just received.
C35_LoadedIsClean ==
  [][LoadInstalledStep => (lastSavedRef' = Serialize(config') /\ ~isDirtyRef')]_vars


\* C36: `loading` is true whenever a calculate, loadScenario or
\* resetScenario request is in flight.
C36_LoadingWhileInFlight ==
  (loadReqs # {} \/ \E r \in calcReqs : r.src = "calculate") => loading


\* C34: whenever the most recently issued mix request is in flight, isMixing
\* is true and mixCancelToken holds the cancel source of that request.
C34_LatestMixOwnsFlags ==
  mixIssued \in mixReqs => (isMixing /\ mixCancelToken = mixIssued)


\* The successful response of mix request r is taken
MixOkStep(r) == r \in mixReqs /\ r \notin mixReqs' /\ outputImages' = r

\* C38: a successful mix response is stored in the output slot whose index
\* the request carried as output_viewer, and the other slot is unchanged.
C38_OutputStoredInRequestedSlot ==
  [][\A r \in mixReqs :
       MixOkStep(r) => /\ outputSlots'[sentViewer[r]] = r
                       /\ \A v \in Viewers \ {sentViewer[r]} :
                            outputSlots'[v] = outputSlots[v]]_vars


\* Every poll loop has stopped and no handleMix call is running
PollingOver == opsStarted > 0 /\ intervals = {} /\ handleMixCalls = {}

\* C37: once the poll loops have stopped with mixing false and progress
\* null, both stay so through every step that is not a handleMix call,
\* the late response of an earlier status request included.
C37_StoppedStaysCleared ==
  [][(PollingOver /\ ~mixing /\ progress = -1 /\ handleMixCalls' = {})
       => (~mixing' /\ progress' = -1)]_vars


\* No watched input of the ControlPanel effect changes in the step
WatchedUnchanged ==
  /\ imageWeights' = imageWeights
  /\ regionMode' = regionMode
  /\ currentOutputViewer' = currentOutputViewer

\* C39: the settling of a mix never triggers another mix by itself: while
\* the watched inputs are those of the last scheduled mix, a step that
\* changes none of them arms no timer, and the ControlPanel issues no more
\* mixImages calls than the user has made input changes.
C39_SettlingTriggersNoMix ==
  /\ [](mixIssued <= nMixEdits)
  /\ [][(currentValues(MixCur) = prevValuesRef /\ WatchedUnchanged)
          => (controlTimeout' => controlTimeout)]_vars

\* One input change, one mix that has settled, and nothing pending
C39_Witness ==
  /\ nMixEdits = 1
  /\ mixIssued = 1
  /\ outputImages = 1
  /\ mixReqs = {}
  /\ ~isMixing
  /\ ~controlTimeout
  /\ settleTimeouts = 0


\* C40: every change of a watched input with a weight above 0 is eventually
\* followed by a mixImages call: once a weight is above 0 and no mixImages
\* call has been issued yet, one is eventually issued (or the weights are
\* set back to 0), also when an upload starts while the timer is pending.
C40_ChangeEventuallyMixed ==
  (imageWeights > 0 /\ mixIssued = 0) ~> (mixIssued > 0 \/ imageWeights = 0)

=============================================================================
